---------------------------- MODULE Spec2Model ----------------------------
(***************************************************************************)
(* A model of the workshop notebooks: of the surrogate-building notebook,   *)
(* the cells that bring the training waveforms onto a common time grid and *)
(* peak-align them, the train / validation / test split and the three      *)
(* optimisation stages; of the classifier notebook, the one-hot encoding   *)
(* of the class labels.  A notebook's globals and the files it writes are  *)
(* the state; a cell, or a call of one of its functions, is an action.     *)
(*                                                                         *)
(* Indices are kept as the Python code has them (0-based); a TLA+          *)
(* sequence s is read at Python index k as s[k + 1].  A 2-D numpy array is *)
(* a record [shape |-> <<rows, cols>>, a |-> the sequence of its rows].    *)
(* Times are counted in units in which the time step dt is an integer.     *)
(***************************************************************************)
EXTENDS Integers, Sequences, FiniteSets, TLC

\* ------------------------------------------------------------- bounds
MaxN == 2
MaxLen == 3
MaxDt == 2
MaxSamples == 5
MaxShift == 2
MaxLabels == 3

\* |h_22| sampled on two levels: the waveforms are amplitudes (np.abs), so
\* they are never negative.
Amplitudes == {0, 1}

\* the default time step dt=0.1, the unit of time of the model
DefaultDt == 1

NoArray == [shape |-> <<0, 0>>, a |-> <<>>]

VARIABLES
    pc,                 \* the cell (or call) that runs next
    num_train_samples,  \* global of the notebook
    times,              \* global of the notebook: the common time grid
    train_data,         \* the list of waveforms training_set_generator returned
    data,               \* the padded 2-D array (train_data after common_time_grid)
    data_aligned,       \* what align_peaks returned
    ctg_dt,             \* the dt a call of common_time_grid is given
    ctg_out,            \* what that call returned
    printed,            \* what the last cell printed: t_peak and offset lines
    t_arg,              \* the time grid a call of get_peaks is given
    peaks_out,          \* what that call returned and printed
    \* the hyperparameter and dataset stages
    files,              \* the .npy files of the working directory
    fixed_dict,         \* global of the notebook
    best,               \* global of the notebook: best_functional | best_shape
    log,                \* what the run has done so far, oldest first
    \* the train / validation / test split
    q,                  \* the mass ratios, one per sample
    q_train, q_validation, q_test,
    train_rows, validation_data, test_data,  \* train_data etc. after the split
    append_sizes,
    \* the classifier notebook
    labels,             \* data[:, -1]: the Class column of the dataset
    y,                  \* the target, one-hot encoded by to_categorical
    output_classes,     \* global of the notebook
    model_units         \* units of the model's softmax layer

splitVars == <<q, q_train, q_validation, q_test, train_rows, validation_data,
               test_data, append_sizes>>

alignVars == <<num_train_samples, times, train_data, data, data_aligned,
               ctg_dt, ctg_out, printed, t_arg, peaks_out>>
stageVars == <<files, fixed_dict, best, log, splitVars>>
classVars == <<labels, y, output_classes, model_units>>

vars == <<pc, alignVars, stageVars, classVars>>

NoCall == [error |-> "", times |-> <<>>, data |-> NoArray]
NoPrint == [t_peak |-> <<>>, offset |-> <<>>]
NoPeaks == [error |-> "", time_peak_arg |-> <<>>, t_peak |-> <<>>]

\* ------------------------------------------------------------- numpy
\* len(h) >= 1 samples per waveform, as the surrogate returns them
WaveformsOfLen(lo) == UNION {[1..l -> Amplitudes] : l \in lo..MaxLen}

\* np.zeros(n)
Zeros(n) == [k \in 1..n |-> 0]

\* np.abs
Abs(x) == IF x < 0 THEN -x ELSE x

\* np.arange(n) * dt
Arange(n, dt) == [k \in 1..n |-> (k - 1) * dt]

\* np.vstack(rows): one row per list entry
VStack(rows) ==
    [shape |-> <<Len(rows), Len(rows[1])>>, a |-> rows]

\* a common_time_grid that forgets .transpose(): one row per waveform
NoTranspose(m) == m

\* ndarray.transpose() of a 2-D array
Transpose(m) ==
    [shape |-> <<m.shape[2], m.shape[1]>>,
     a |-> [i \in 1..m.shape[2] |-> [j \in 1..m.shape[1] |-> m.a[j][i]]]]

\* training_set[from:, i] with Python indices from, i
ColumnFrom(m, from, i) ==
    [k \in 1..(m.shape[1] - from) |-> m.a[k + from][i + 1]]

\* np.argmax: the first Python index holding the largest entry
ArgMax(h) ==
    CHOOSE k \in 0..(Len(h) - 1) :
        /\ \A j \in 0..(Len(h) - 1) : h[j + 1] <= h[k + 1]
        /\ \A j \in 0..(k - 1) : h[j + 1] < h[k + 1]

\* min() of a non-empty list
Min(s) == CHOOSE x \in {s[k] : k \in 1..Len(s)} : \A k \in 1..Len(s) : x <= s[k]

\* ---------------------------------------------------- common_time_grid
RECURSIVE LongestFrom(_, _, _)
LongestFrom(training_data, i, longest_waveform) ==
    IF i > Len(training_data) THEN longest_waveform
    ELSE LongestFrom(training_data, i + 1,
                     IF Len(training_data[i]) > longest_waveform
                     THEN Len(training_data[i]) ELSE longest_waveform)

LongestWaveform(training_data) == LongestFrom(training_data, 1, 0)

\* np.append with its arguments swapped: the zeros come first
PadWaveformFront(h, longest_waveform) == Zeros(longest_waveform - Len(h)) \o h

PadWaveform(h, longest_waveform) == h \o Zeros(longest_waveform - Len(h))

common_time_grid(training_data, dt) ==
    IF Len(training_data) = 0
    THEN [error |-> "ValueError", times |-> <<>>, data |-> NoArray]
    ELSE LET longest_waveform == LongestWaveform(training_data)
             padded_training_data ==
                 [i \in 1..Len(training_data) |->
                     PadWaveform(training_data[i], longest_waveform)]
         IN  [error |-> "",
              times |-> Arange(longest_waveform, dt),
              data  |-> Transpose(VStack(padded_training_data))]

\* ------------------------------------------------------------ get_peak
\* [arg, t[arg], h[arg]]
get_peak(t, h) ==
    IF Len(h) = 0 THEN [error |-> "ValueError", arg |-> 0, t_peak |-> 0, h_peak |-> 0]
    ELSE LET arg == ArgMax([k \in 1..Len(h) |-> Abs(h[k])])
         IN  IF arg >= Len(t)
             THEN [error |-> "IndexError", arg |-> arg, t_peak |-> 0, h_peak |-> 0]
             ELSE [error |-> "", arg |-> arg, t_peak |-> t[arg + 1],
                   h_peak |-> h[arg + 1]]

\* ----------------------------------------------------------- get_peaks
\* the loop "for i in range(num_train_samples)", from Python index i on;
\* the time grid it reads is the global times, the count the global
\* num_train_samples
RECURSIVE GetPeaksFrom(_, _, _, _)
GetPeaksFrom(training_set, i, time_peak_arg, t_peaks) ==
    IF i >= num_train_samples
    THEN [error |-> "", time_peak_arg |-> time_peak_arg, t_peak |-> t_peaks]
    ELSE IF i >= training_set.shape[2]
    THEN [error |-> "IndexError", time_peak_arg |-> time_peak_arg, t_peak |-> t_peaks]
    ELSE LET p == get_peak(times, ColumnFrom(training_set, 0, i))
         IN  IF p.error # ""
             THEN [error |-> p.error, time_peak_arg |-> time_peak_arg,
                   t_peak |-> t_peaks]
             ELSE GetPeaksFrom(training_set, i + 1,
                               Append(time_peak_arg, p.arg),
                               Append(t_peaks, p.t_peak))

get_peaks(t, training_set) == GetPeaksFrom(training_set, 0, <<>>, <<>>)

\* --------------------------------------------------------- align_peaks
\* an align_peaks that shifts every waveform by its own peak index
AlignOffsetsFromZero(time_peak_arg) ==
    [i \in 1..num_train_samples |-> time_peak_arg[i]]

\* offset = time_peak_arg[i] - min_arg, for i in range(num_train_samples)
AlignOffsets(time_peak_arg) ==
    [i \in 1..num_train_samples |-> time_peak_arg[i] - Min(time_peak_arg)]

align_peaks(times_, training_set) ==
    LET peaks == get_peaks(times_, training_set)
    IN  IF peaks.error # ""
        THEN [error |-> peaks.error, data |-> NoArray,
              printed |-> [t_peak |-> peaks.t_peak, offset |-> <<>>]]
        ELSE IF Len(peaks.time_peak_arg) = 0
        THEN [error |-> "ValueError", data |-> NoArray,
              printed |-> [t_peak |-> peaks.t_peak, offset |-> <<>>]]
        ELSE LET offset == AlignOffsets(peaks.time_peak_arg)
                 aligned_training_set ==
                     [i \in 1..num_train_samples |->
                         ColumnFrom(training_set, offset[i], i - 1)]
                 grid == common_time_grid(aligned_training_set, DefaultDt)
             IN  [error |-> grid.error, data |-> grid.data,
                  printed |-> [t_peak |-> peaks.t_peak, offset |-> offset]]

\* ===================================================================
\* The cells of the notebook that build the aligned training set
\* ===================================================================
\* the later cells have not run
SplitIdle ==
    /\ q = <<>> /\ q_train = <<>> /\ q_validation = <<>> /\ q_test = <<>>
    /\ train_rows = <<>> /\ validation_data = <<>> /\ test_data = <<>>
    /\ append_sizes = <<>>

\* the classifier notebook has not run
ClassIdle ==
    /\ labels = <<>> /\ y = <<>> /\ output_classes = 0 /\ model_units = 0

StagesIdle ==
    /\ files = <<>> /\ fixed_dict = <<>> /\ best = <<>> /\ log = <<>>
    /\ SplitIdle
    /\ ClassIdle

AlignIdle ==
    /\ ctg_dt = DefaultDt /\ ctg_out = NoCall
    /\ t_arg = <<>> /\ peaks_out = NoPeaks
    /\ StagesIdle

\* num_train_samples = ...; q, data = training_set_generator(num_train_samples):
\* the surrogate's waveforms are inputs of the model
Generate ==
    /\ pc = "generate"
    /\ \E n \in 1..MaxN :
          /\ num_train_samples' = n
          /\ train_data' \in [1..n -> WaveformsOfLen(1)]
    /\ pc' = "common_time_grid"
    /\ UNCHANGED <<times, data, data_aligned, ctg_dt, ctg_out, printed,
                   t_arg, peaks_out, stageVars, classVars>>

\* times, data = common_time_grid(data)
CellCommonTimeGrid ==
    /\ pc = "common_time_grid"
    /\ LET r == common_time_grid(train_data, DefaultDt)
       IN  /\ times' = r.times
           /\ data' = r.data
           /\ ctg_out' = r
           /\ pc' = IF r.error = "" THEN "align_peaks" ELSE "error"
    /\ UNCHANGED <<num_train_samples, train_data, data_aligned, ctg_dt,
                   printed, t_arg, peaks_out, stageVars, classVars>>

\* data_aligned = align_peaks(times, data)
CellAlignPeaks ==
    /\ pc = "align_peaks"
    /\ LET r == align_peaks(times, data)
       IN  /\ data_aligned' = r.data
           /\ printed' = r.printed
           /\ pc' = IF r.error = "" THEN "aligned" ELSE "error"
    /\ UNCHANGED <<num_train_samples, times, train_data, data, ctg_dt,
                   ctg_out, t_arg, peaks_out, stageVars, classVars>>

InitAlign ==
    /\ pc = "generate"
    /\ num_train_samples = 0
    /\ times = <<>>
    /\ train_data = <<>>
    /\ data = NoArray
    /\ data_aligned = NoArray
    /\ printed = NoPrint
    /\ AlignIdle

NextAlign == Generate \/ CellCommonTimeGrid \/ CellAlignPeaks

SpecAlign == InitAlign /\ [][NextAlign]_vars

\* ===================================================================
\* common_time_grid as a function: any list of waveforms, any dt
\* ===================================================================
CallCommonTimeGrid ==
    /\ pc = "grid_call"
    /\ ctg_out' = common_time_grid(train_data, ctg_dt)
    /\ pc' = "grid_done"
    /\ UNCHANGED <<num_train_samples, times, train_data, data, data_aligned,
                   ctg_dt, printed, t_arg, peaks_out, stageVars, classVars>>

InitGrid ==
    /\ pc = "grid_call"
    /\ \E n \in 0..MaxN : train_data \in [1..n -> WaveformsOfLen(0)]
    /\ ctg_dt \in 1..MaxDt
    /\ ctg_out = NoCall
    /\ num_train_samples = 0
    /\ times = <<>>
    /\ data = NoArray
    /\ data_aligned = NoArray
    /\ printed = NoPrint
    /\ t_arg = <<>> /\ peaks_out = NoPeaks
    /\ StagesIdle

NextGrid == CallCommonTimeGrid

SpecGrid == InitGrid /\ [][NextGrid]_vars

\* ===================================================================
\* get_peaks as a function: called with any time grid and training set,
\* in a notebook whose globals an earlier run of the cells has set
\* ===================================================================
ArraysOf(maxRows, maxCols) ==
    UNION {{[shape |-> <<r, c>>, a |-> m] : m \in [1..r -> [1..c -> Amplitudes]]} :
           r \in 1..maxRows, c \in 1..maxCols}

CallGetPeaks ==
    /\ pc = "peaks_call"
    /\ peaks_out' = get_peaks(t_arg, data)
    /\ pc' = "peaks_done"
    /\ UNCHANGED <<num_train_samples, times, train_data, data, data_aligned,
                   ctg_dt, ctg_out, printed, t_arg, stageVars, classVars>>

InitPeaks ==
    /\ pc = "peaks_call"
    /\ num_train_samples \in 1..MaxN
    /\ \E l \in 1..MaxLen : times = Arange(l, DefaultDt)
    /\ data \in ArraysOf(MaxLen, MaxN)
    /\ \E dt \in 1..MaxDt : t_arg = Arange(data.shape[1], dt)
    /\ peaks_out = NoPeaks
    /\ train_data = <<>>
    /\ data_aligned = NoArray
    /\ printed = NoPrint
    /\ ctg_dt = DefaultDt /\ ctg_out = NoCall
    /\ StagesIdle

NextPeaks == CallGetPeaks

SpecPeaks == InitPeaks /\ [][NextPeaks]_vars

\* ===================================================================
\* The three optimisation stages: functional hyperparameters, size and
\* shape hyperparameters, training dataset
\* ===================================================================
FunctionalFile == "best_functional_hyper.npy"
ShapeFile == "best_shape_hyper.npy"
FileNames == {FunctionalFile, ShapeFile}

\* functional_options_dict: what a trial of the functional study can hold
\* (learning rates as written in the source)
FunctionalOptions ==
    [activation : {"relu", "tanh", "sigmoid"},
     weight_init : {"glorot_uniform"},
     learning_rate : {"1e-4", "1e-3", "1e-2"},
     optimiser : {"Adam", "Adamax", "Nadam", "Ftrl", "SGD", "RMSprop"},
     normalisation : {0}]

\* shape_options_dict; dropout_rate = np.linspace(0.1, 0.5, 5) in tenths
ShapeOptions ==
    [num_hidden_layers : {2, 4, 6, 8, 10},
     nodes_per_layer : {8, 10, 15, 20, 50},
     dropout : {0, 1},
     dropout_rate : 1..5,
     batch_size : {8}]

\* a file no cell of this run has written: not there, or left by an earlier
\* run of the notebook
Absent == [exists |-> FALSE, params |-> <<>>]
LeftOver == [exists |-> TRUE, params |-> <<>>]

\* the code cells of the stages, in the order the notebook runs them
CellsSwapped == <<"ff2a2b51", "0ea1145c", "9accb324", "fe5ee92f", "0a79b98a">>

CellOrder == <<"0ea1145c", "ff2a2b51", "9accb324", "fe5ee92f", "0a79b98a">>

NextCell(cell) ==
    LET k == CHOOSE i \in 1..Len(CellOrder) : CellOrder[i] = cell
    IN  IF k = Len(CellOrder) THEN "done" ELSE CellOrder[k + 1]

\* np.save(file, params)
Save(file, params) ==
    /\ files' = [files EXCEPT ![file] = [exists |-> TRUE, params |-> params]]

Event(stage, op, file) == [stage |-> stage, op |-> op, file |-> file]

\* cell 0ea1145c: the functional study, then np.save of its best trial; an
\* exception of the study ends the run before anything is saved
CellFunctionalStudy ==
    /\ pc = "0ea1145c"
    /\ \/ /\ \E best_params \in FunctionalOptions :
                /\ Save(FunctionalFile, best_params)
                /\ log' = log \o <<Event("functional", "study", ""),
                                   Event("functional", "save", FunctionalFile)>>
          /\ pc' = NextCell("0ea1145c")
       \/ /\ pc' = "error"
          /\ log' = Append(log, Event("functional", "study", ""))
          /\ UNCHANGED files
    /\ UNCHANGED <<fixed_dict, best, alignVars, splitVars, classVars>>

\* cell ff2a2b51: np.load of the functional result into fixed_dict
CellLoadFunctional ==
    /\ pc = "ff2a2b51"
    /\ IF files[FunctionalFile].exists
       THEN /\ fixed_dict' = [params |-> files[FunctionalFile].params,
                              num_epochs |-> 100]
            /\ log' = Append(log, Event("shape", "load", FunctionalFile))
            /\ pc' = NextCell("ff2a2b51")
       ELSE /\ pc' = "error"
            /\ UNCHANGED <<fixed_dict, log, classVars>>
    /\ UNCHANGED <<files, best, alignVars, splitVars, classVars>>

\* cell 9accb324: the shape study, then np.save of its best trial
CellShapeStudy ==
    /\ pc = "9accb324"
    /\ \/ /\ \E best_params \in ShapeOptions :
                /\ Save(ShapeFile, best_params)
                /\ log' = log \o <<Event("shape", "study", ""),
                                   Event("shape", "save", ShapeFile)>>
          /\ pc' = NextCell("9accb324")
       \/ /\ pc' = "error"
          /\ log' = Append(log, Event("shape", "study", ""))
          /\ UNCHANGED files
    /\ UNCHANGED <<fixed_dict, best, alignVars, splitVars, classVars>>

\* cell fe5ee92f: np.load of both results; best = best_functional | best_shape
CellLoadBest ==
    /\ pc = "fe5ee92f"
    /\ IF files[FunctionalFile].exists /\ files[ShapeFile].exists
       THEN /\ best' = [functional |-> files[FunctionalFile].params,
                        shape |-> files[ShapeFile].params]
            /\ log' = log \o <<Event("dataset", "load", FunctionalFile),
                               Event("dataset", "load", ShapeFile)>>
            /\ pc' = NextCell("fe5ee92f")
       ELSE /\ pc' = "error"
            /\ UNCHANGED <<best, log, classVars>>
    /\ UNCHANGED <<files, fixed_dict, alignVars, splitVars, classVars>>

\* cell 0a79b98a: train_iteration(append_sizes, best, ...)
CellTrainIteration ==
    /\ pc = "0a79b98a"
    /\ log' = Append(log, Event("dataset", "train_iteration", ""))
    /\ pc' = NextCell("0a79b98a")
    /\ UNCHANGED <<files, fixed_dict, best, alignVars, splitVars, classVars>>

\* "Run All" from the first cell of the stages; fixed_dict as cell 401dc4b4
\* leaves it
InitStages ==
    /\ pc = CellOrder[1]
    /\ files \in [FileNames -> {Absent, LeftOver}]
    /\ fixed_dict = [params |-> <<>>, num_epochs |-> 100]
    /\ best = [functional |-> <<>>, shape |-> <<>>]
    /\ log = <<>>
    /\ SplitIdle
    /\ ClassIdle
    /\ num_train_samples = 0
    /\ times = <<>>
    /\ train_data = <<>>
    /\ data = NoArray
    /\ data_aligned = NoArray
    /\ printed = NoPrint
    /\ ctg_dt = DefaultDt /\ ctg_out = NoCall
    /\ t_arg = <<>> /\ peaks_out = NoPeaks

NextStages ==
    \/ CellFunctionalStudy
    \/ CellLoadFunctional
    \/ CellShapeStudy
    \/ CellLoadBest
    \/ CellTrainIteration

SpecStages == InitStages /\ [][NextStages]_vars

\* ===================================================================
\* The train / validation / test split and the sizes of the dataset stage
\* ===================================================================
NumTrainSamples == 401
NumIterations == 10
ExpectedSum == 240

\* the sample counts of the model: the notebook's, and small ones on which
\* every shuffle is tried
SampleCounts == (1..MaxSamples) \cup {NumTrainSamples}

\* the shuffles of n samples train_test_split may draw: every permutation of
\* a small set, rotations of a large one
Rotation(n, k) == [i \in 1..n |-> ((i + k - 1) % n) + 1]

Shuffles(n) ==
    IF n <= MaxSamples
    THEN {p \in [1..n -> 1..n] : \A i, j \in 1..n : p[i] = p[j] => i = j}
    ELSE {Rotation(n, k) : k \in 0..MaxShift}

\* n_test = ceil(test_size * n_samples), test_size = num/den
TestCount(n, num, den) == (n * num + den - 1) \div den

\* sklearn.model_selection.train_test_split(a, b, random_state=0,
\* test_size=num/den): the first n_test samples of the shuffle are the test
\* part, the rest the train part, the same samples of a and of b
train_test_split(a, b, num, den, perm) ==
    LET n == Len(a)
        n_test == TestCount(n, num, den)
        n_train == n - n_test
        Train(x) == [i \in 1..n_train |-> x[perm[n_test + i]]]
        Test(x) == [i \in 1..n_test |-> x[perm[i]]]
    IN  IF n_train <= 0
        THEN [error |-> "ValueError", a_train |-> <<>>, a_test |-> <<>>,
              b_train |-> <<>>, b_test |-> <<>>]
        ELSE [error |-> "", a_train |-> Train(a), a_test |-> Test(a),
              b_train |-> Train(b), b_test |-> Test(b)]

\* x.reshape(x.shape[0], 1)
Reshape(x) == [i \in 1..Len(x) |-> <<x[i]>>]

\* iteration_size rounded up
IterationSizeCeil(n) == (n + NumIterations - 1) \div NumIterations

\* iteration_size = len(q_train) // num_iterations
IterationSize(n) == n \div NumIterations

RECURSIVE Sum(_)
Sum(s) == IF Len(s) = 0 THEN 0 ELSE s[1] + Sum(Tail(s))

\* the second call's results unpacked as validation first, test second
SecondSplitValidationFirst(second) ==
    [q_validation |-> second.a_train, q_test |-> second.a_test,
     validation_data |-> second.b_train, test_data |-> second.b_test]

\* q_test, q_validation, test_data, validation_data = train_test_split(...)
SecondSplit(second) ==
    [q_test |-> second.a_train, q_validation |-> second.a_test,
     test_data |-> second.b_train, validation_data |-> second.b_test]

\* cell 990f80a8: the two calls of train_test_split, then the reshapes
CellSplit ==
    /\ pc = "990f80a8"
    /\ \E perm1 \in Shuffles(Len(q)) :
         LET first == train_test_split(q, Transpose(data_aligned).a, 2, 5, perm1)
         IN  IF first.error # ""
             THEN /\ pc' = "error"
                  /\ UNCHANGED <<q_train, q_validation, q_test, train_rows,
                                 validation_data, test_data, classVars>>
             ELSE \E perm2 \in Shuffles(Len(first.a_test)) :
                  LET second == train_test_split(first.a_test, first.b_test,
                                                 1, 2, perm2)
                  IN  IF second.error # ""
                      THEN /\ pc' = "error"
                           /\ q_train' = first.a_train
                           /\ q_validation' = first.a_test
                           /\ train_rows' = first.b_train
                           /\ validation_data' = first.b_test
                           /\ UNCHANGED <<q_test, test_data, classVars>>
                      ELSE /\ pc' = "aa9cc944"
                           /\ q_train' = Reshape(first.a_train)
                           /\ train_rows' = first.b_train
                           /\ q_test' = Reshape(SecondSplit(second).q_test)
                           /\ q_validation' =
                                  Reshape(SecondSplit(second).q_validation)
                           /\ test_data' = SecondSplit(second).test_data
                           /\ validation_data' =
                                  SecondSplit(second).validation_data
    /\ UNCHANGED <<q, append_sizes, alignVars, files, fixed_dict, best, log, classVars>>

\* cell aa9cc944: append_sizes and the assertion on their sum
CellAppendSizes ==
    /\ pc = "aa9cc944"
    /\ append_sizes' = [i \in 1..NumIterations |-> IterationSize(Len(q_train))]
    /\ pc' = IF Sum(append_sizes') = ExpectedSum THEN "9e90c655"
             ELSE "AssertionError"
    /\ UNCHANGED <<q, q_train, q_validation, q_test, train_rows,
                   validation_data, test_data, alignVars, files, fixed_dict,
                   best, log, classVars>>

\* the state cell 8d35ce2d leaves: n samples, q[i] the i-th mass ratio of
\* np.linspace(1.0, 2.0, n) (written as i), column i of data_aligned the
\* waveform of q[i] (a single sample, written as i)
InitSplit ==
    /\ pc = "990f80a8"
    /\ num_train_samples \in SampleCounts
    /\ q = [i \in 1..num_train_samples |-> i]
    /\ data_aligned = [shape |-> <<1, num_train_samples>>,
                       a |-> <<[i \in 1..num_train_samples |-> i]>>]
    /\ q_train = <<>> /\ q_validation = <<>> /\ q_test = <<>>
    /\ train_rows = <<>> /\ validation_data = <<>> /\ test_data = <<>>
    /\ append_sizes = <<>>
    /\ files = <<>> /\ fixed_dict = <<>> /\ best = <<>> /\ log = <<>>
    /\ ClassIdle
    /\ times = <<>>
    /\ train_data = <<>>
    /\ data = NoArray
    /\ printed = NoPrint
    /\ ctg_dt = DefaultDt /\ ctg_out = NoCall
    /\ t_arg = <<>> /\ peaks_out = NoPeaks

NextSplit == CellSplit \/ CellAppendSizes

SpecSplit == InitSplit /\ [][NextSplit]_vars

\* ===================================================================
\* The classifier notebook: the one-hot encoding of the Class column
\* ===================================================================
\* the documented classes: Injections 0, Blip 1, Koi_Fish 2,
\* Low_Frequency_Burst 3, Tomte 4, Whistle 5, Fast_Scattering 6
NumClasses == 7
Classes == 0..(NumClasses - 1)

\* len(np.unique(y)): the number of distinct labels in the dataset
CountUnique(x) == Cardinality({x[i] : i \in 1..Len(x)})

\* keras to_categorical(x, num_classes): a row of num_classes zeros per
\* sample with a 1 at Python index x[i]; an index past the row is an error
to_categorical(x, num_classes) ==
    IF \E i \in 1..Len(x) : x[i] >= num_classes
    THEN [error |-> "IndexError", categorical |-> <<>>]
    ELSE [error |-> "",
          categorical |->
              [i \in 1..Len(x) |->
                  [c \in 1..num_classes |-> IF c - 1 = x[i] THEN 1 ELSE 0]]]

\* cell 2GAGhNHwINij: y = data[:, -1]; output_classes = len(np.unique(y));
\* y = to_categorical(y, num_classes=output_classes)
CellEncode ==
    /\ pc = "2GAGhNHwINij"
    /\ output_classes' = CountUnique(labels)
    /\ LET r == to_categorical(labels, output_classes')
       IN  IF r.error # ""
           THEN /\ y' = labels
                /\ pc' = r.error
           ELSE /\ y' = r.categorical
                /\ pc' = "3jQY4warOGwm"
    /\ UNCHANGED <<labels, model_units, alignVars, stageVars>>

\* cell 3jQY4warOGwm: Dense(output_classes, activation='softmax')
CellBuildModel ==
    /\ pc = "3jQY4warOGwm"
    /\ model_units' = output_classes
    /\ pc' = "fitted"
    /\ UNCHANGED <<labels, y, output_classes, alignVars, stageVars>>

\* a dataset of up to MaxLabels samples, each of one of the documented classes
InitClass ==
    /\ pc = "2GAGhNHwINij"
    /\ \E n \in 1..MaxLabels : labels \in [1..n -> Classes]
    /\ y = <<>> /\ output_classes = 0 /\ model_units = 0
    /\ files = <<>> /\ fixed_dict = <<>> /\ best = <<>> /\ log = <<>>
    /\ SplitIdle
    /\ num_train_samples = 0
    /\ times = <<>>
    /\ train_data = <<>>
    /\ data = NoArray
    /\ data_aligned = NoArray
    /\ printed = NoPrint
    /\ ctg_dt = DefaultDt /\ ctg_out = NoCall
    /\ t_arg = <<>> /\ peaks_out = NoPeaks

NextClass == CellEncode \/ CellBuildModel

SpecClass == InitClass /\ [][NextClass]_vars

\* ===================================================================
\* Properties
\* ===================================================================
Column(m, j) == [k \in 1..m.shape[1] |-> m.a[k][j]]
Lengths(training_data) == {Len(training_data[i]) : i \in 1..Len(training_data)}
FirstPeak(h) == ArgMax([k \in 1..Len(h) |-> Abs(h[k])])

\* C1: common_time_grid of a non-empty list of N waveforms returns an array
\* of shape (L_max, N), L_max the length of the longest input waveform, and a
\* time grid of L_max entries with times[k] = k*dt.
C1_CommonGridShape ==
    (pc = "grid_done" /\ Len(train_data) >= 1) =>
        /\ ctg_out.error = ""
        /\ ctg_out.data.shape[2] = Len(train_data)
        /\ ctg_out.data.shape[1] \in Lengths(train_data)
        /\ \A l \in Lengths(train_data) : l <= ctg_out.data.shape[1]
        /\ Len(ctg_out.data.a) = ctg_out.data.shape[1]
        /\ \A k \in 1..Len(ctg_out.data.a) :
              Len(ctg_out.data.a[k]) = Len(train_data)
        /\ Len(ctg_out.times) = ctg_out.data.shape[1]
        /\ \A k \in 0..(Len(ctg_out.times) - 1) :
              ctg_out.times[k + 1] = k * ctg_dt

C1_Witness ==
    /\ pc = "grid_done"
    /\ Len(train_data) = 2
    /\ Len(train_data[1]) = 1 /\ Len(train_data[2]) = 3
    /\ ctg_dt = 2
    /\ ctg_out.data.shape = <<3, 2>>

\* C2: column i of the result is waveform i followed by zeros only: the
\* samples are kept in place and in order, and so are the columns.
C2_PadsOnlyAtEnd ==
    (pc = "grid_done" /\ Len(train_data) >= 1) =>
        /\ ctg_out.data.shape[2] = Len(train_data)
        /\ \A i \in 1..Len(train_data) :
              \A k \in 1..ctg_out.data.shape[1] :
                  ctg_out.data.a[k][i] =
                      IF k <= Len(train_data[i]) THEN train_data[i][k] ELSE 0

C2_Witness ==
    /\ pc = "grid_done"
    /\ Len(train_data) = 2
    /\ train_data[1] = <<1>> /\ train_data[2] = <<0, 1, 1>>
    /\ Column(ctg_out.data, 1) = <<1, 0, 0>>
    /\ Column(ctg_out.data, 2) = <<0, 1, 1>>

\* C3: in the array align_peaks returns every column has its peak (the first
\* largest absolute value) at the same row, the smallest of the peak indices
\* of the input columns.
C3_PeaksAligned ==
    pc = "aligned" =>
        /\ data_aligned.shape[2] = data.shape[2]
        /\ \A j \in 1..data_aligned.shape[2] :
              /\ FirstPeak(Column(data_aligned, j)) <= FirstPeak(Column(data, j))
              /\ \A i \in 1..data.shape[2] :
                    FirstPeak(Column(data_aligned, j)) <= FirstPeak(Column(data, i))
              /\ \E i \in 1..data.shape[2] :
                    FirstPeak(Column(data_aligned, j)) = FirstPeak(Column(data, i))

C3_Witness ==
    /\ pc = "aligned"
    /\ data.shape[2] = 2
    /\ FirstPeak(Column(data, 1)) = 1
    /\ FirstPeak(Column(data, 2)) = 2
    /\ FirstPeak(Column(data_aligned, 2)) = 1

\* C4: align_peaks leaves the shortest waveform of the set unshifted: a
\* waveform with the fewest samples before zero-padding has offset 0.
C4_ShortestIsReference ==
    pc = "aligned" =>
        \E i \in 1..Len(train_data) :
            /\ printed.offset[i] = 0
            /\ \A l \in Lengths(train_data) : Len(train_data[i]) <= l

\* C5: get_peaks(t, training_set) returns one entry per column of
\* training_set, entry i the peak index of column i, and the peak time it
\* reports for column i is t at that index.
C5_PeaksOfWholeSet ==
    pc = "peaks_done" =>
        /\ peaks_out.error = ""
        /\ Len(peaks_out.time_peak_arg) = data.shape[2]
        /\ \A i \in 1..data.shape[2] :
              /\ peaks_out.time_peak_arg[i] = FirstPeak(Column(data, i))
              /\ peaks_out.t_peak[i] = t_arg[peaks_out.time_peak_arg[i] + 1]

StageRank(stage) ==
    CASE stage = "functional" -> 1 [] stage = "shape" -> 2 [] stage = "dataset" -> 3

SavedBefore(j, file) ==
    \E i \in 1..(j - 1) : log[i].op = "save" /\ log[i].file = file

\* C6: the stages run in the order functional, shape, dataset; whatever the
\* shape stage does comes after this run saved best_functional_hyper.npy,
\* whatever the dataset stage does comes after this run saved both files, and
\* no file is loaded before this run saved it.
C6_StagesInOrder ==
    \A j \in 1..Len(log) :
        /\ \A i \in 1..(j - 1) : StageRank(log[i].stage) <= StageRank(log[j].stage)
        /\ log[j].stage = "shape" => SavedBefore(j, FunctionalFile)
        /\ log[j].stage = "dataset" =>
              SavedBefore(j, FunctionalFile) /\ SavedBefore(j, ShapeFile)
        /\ log[j].op = "load" => SavedBefore(j, log[j].file)

C6_Witness ==
    /\ pc = "done"
    /\ Len(log) = 8
    /\ log[3] = Event("shape", "load", FunctionalFile)
    /\ log[7] = Event("dataset", "load", ShapeFile)
    /\ log[8].op = "train_iteration"
    /\ best.functional = files[FunctionalFile].params
    /\ best.shape = files[ShapeFile].params

SplitDone == pc \in {"aa9cc944", "9e90c655", "AssertionError"}
Samples(rows) == {rows[i][1] : i \in 1..Len(rows)}

\* C9: append_sizes has num_iterations entries, each len(q_train) //
\* num_iterations, so their sum is at most len(q_train); in the run with 401
\* samples the sum is 240 and the assertion passes.
C9_AppendSizesFit ==
    pc \in {"9e90c655", "AssertionError"} =>
        /\ Len(append_sizes) = NumIterations
        /\ \A i \in 1..Len(append_sizes) :
              append_sizes[i] * NumIterations <= Len(q_train)
              /\ (append_sizes[i] + 1) * NumIterations > Len(q_train)
        /\ Sum(append_sizes) <= Len(q_train)
        /\ num_train_samples = NumTrainSamples =>
              /\ Sum(append_sizes) = 240
              /\ Len(q_train) = 240
              /\ pc = "9e90c655"

C9_Witness ==
    /\ pc = "9e90c655"
    /\ num_train_samples = NumTrainSamples
    /\ Len(q_train) = 240
    /\ append_sizes = [i \in 1..10 |-> 24]

\* C10: the training, validation and test sets are pairwise disjoint and
\* together hold every sample exactly once; of 401 samples 240 are training,
\* 81 validation and 80 test samples; in each set row i of the waveforms is
\* the waveform of entry i of the mass ratios.
C10_SplitPartitions ==
    SplitDone =>
        /\ Samples(q_train) \cap Samples(q_validation) = {}
        /\ Samples(q_train) \cap Samples(q_test) = {}
        /\ Samples(q_validation) \cap Samples(q_test) = {}
        /\ Samples(q_train) \cup Samples(q_validation) \cup Samples(q_test)
              = 1..num_train_samples
        /\ Len(q_train) + Len(q_validation) + Len(q_test) = num_train_samples
        /\ num_train_samples = NumTrainSamples =>
              /\ Len(q_train) = 240 /\ Len(train_rows) = 240
              /\ Len(q_validation) = 81 /\ Len(validation_data) = 81
              /\ Len(q_test) = 80 /\ Len(test_data) = 80
        /\ train_rows = q_train
        /\ validation_data = q_validation
        /\ test_data = q_test

C10_Witness ==
    /\ pc = "aa9cc944"
    /\ num_train_samples = NumTrainSamples
    /\ Len(q_train) = 240 /\ Len(q_validation) = 81 /\ Len(q_test) = 80
    /\ q_train[1] # <<1>>
    /\ train_rows[1] = q_train[1]

\* C11: for a dataset whose labels are among the documented classes 0..6 the
\* encoding is well defined: output_classes is the number of classes in the
\* dataset, every label c is below output_classes and is encoded as a row of
\* output_classes entries with a single 1, at position c, and the softmax
\* layer has one unit per class.
C11_OneHotMatchesMapping ==
    /\ pc # "IndexError"
    /\ pc \in {"3jQY4warOGwm", "fitted"} =>
          /\ output_classes = CountUnique(labels)
          /\ Len(y) = Len(labels)
          /\ \A i \in 1..Len(labels) :
                /\ labels[i] < output_classes
                /\ Len(y[i]) = output_classes
                /\ \A c \in 0..(output_classes - 1) :
                      y[i][c + 1] = IF c = labels[i] THEN 1 ELSE 0
    /\ pc = "fitted" => model_units = output_classes

=============================================================================
